---- MODULE Spec2Model ----
(***************************************************************************)
(* A model of the analysis core of gps_analysis: best-split extraction     *)
(* (find_best_times), the efficiency frontier (calc_pareto_front over      *)
(* is_pareto_efficient) and gate-crossing detection (find_crossing_times). *)
(*                                                                         *)
(* Conventions.                                                            *)
(*  - A track (the pandas DataFrame `positions`) is a sequence of sample    *)
(*    records.  Python positions and labels are 0-based, sequences here    *)
(*    are 1-based: label L of the source is index L + 1 of the model.      *)
(*  - Floating point values are exact rationals [num, den] with den > 0;   *)
(*    den = 0 stands for NaN.                                               *)
(*  - Distances are whole kilometres, times whole seconds.                 *)
(*  - The spherical geometry of sphere.py is modelled in the plane, on a    *)
(*    grid whose axes run north (latitude) and east (longitude), for        *)
(*    bearings that are multiples of 90 degrees: near a gate, where the     *)
(*    proximity filter keeps the points, great circles are straight lines.  *)
(*    Tracks read from GPX have their distances in grid units.              *)
(***************************************************************************)
EXTENDS Integers, Sequences, FiniteSets, TLC

VARIABLES
    positions,          \* the caller's track
    pc,                 \* which operation is running and where it is
    distance,           \* find_best_times: the target distance
    best_ordering,      \* find_best_times: dist_times.argsort().values
    unblocked,          \* find_best_times: the mask of unblocked candidates
    best,               \* find_best_times: the candidates selected so far
    best_timesplits,    \* find_best_times: the returned table
    costs,              \* is_pareto_efficient: the working cost rows
    is_efficient,       \* is_pareto_efficient: the surviving original indices
    next_point_index,   \* is_pareto_efficient: the sweep position (0-based)
    front,              \* calc_pareto_front: the returned mask
    loc,                \* find_crossing_times: the gate
    thresh,             \* find_crossing_times: the proximity threshold
    close_positions,    \* find_crossing_times: the filtered copy of the track
    crossings,          \* find_crossing_times: the labels flagged as crossings
    crossing_times,     \* find_crossing_times: the returned series
    raised,             \* the exception a call ended with, "" for none
    locations,          \* find_all_crossing_times: the table of gates
    close_by_gate,      \* find_all_crossing_times: the kept labels, per gate
    loc_times,          \* find_all_crossing_times: the returned series
    loc_timings,        \* get_location_timings: the returned matrix
    inputs,             \* map_concurrent: the keys of the inputs
    raise_on_err,       \* map_concurrent: the parameter of that name
    work,               \* map_concurrent: the state of the future of each key
    output,             \* map_concurrent: the results collected
    errors,             \* map_concurrent: the exceptions collected
    _API,               \* garmin: the module-level session, None at import
    logins,             \* garmin: the calls of login made by the process
    max_retries,        \* login: the parameter of that name
    login_i,            \* login: the loop variable i
    api,                \* login: the local of that name
    err,                \* login: the exception caught last
    attempts,           \* login: the outcomes of the attempts of the call
    api_arg,            \* get_api: the argument api
    in_get_api,         \* get_api: whether login runs as its last operand
    returned_api        \* login, get_api: the value returned

splits_vars == <<distance, best_ordering, unblocked, best, best_timesplits>>

pareto_vars == <<costs, is_efficient, next_point_index, front>>

crossing_vars == <<loc, thresh, close_positions, crossings, crossing_times>>

timing_vars == <<locations, close_by_gate, loc_times, loc_timings>>

batch_vars == <<inputs, raise_on_err, work, output, errors>>

login_vars == <<_API, logins, max_retries, login_i, api, err, attempts,
                api_arg, in_get_api, returned_api>>

more_vars == <<timing_vars, batch_vars, login_vars>>

vars == <<positions, pc, splits_vars, pareto_vars, crossing_vars, raised,
          more_vars>>

----------------------------------------------------------------------------
(* Bounds of the model *)

\* the longest track
MaxLen == 5

\* distance between consecutive samples, km
DistSteps == {0, 1, 2}

\* time between consecutive samples, s
TimeSteps == {100, 200}

\* cumulative distance of the first sample, km
FirstDistances == {0}

\* target distances handed to find_best_times, km
TargetDistances == {-1, 1, 2, 3}

\* the longest track read from a GPX file
MaxGpxLen == 4

\* longitudes of the points of a GPX track, in grid units; all on latitude 0
Longitudes == -2 .. 2

\* the gates: on latitude 0, facing north, east or west
Gates == [latitude : {0}, longitude : {0, 1}, bearing : {0, 90, 270}]

\* proximity thresholds handed to find_crossing_times, in grid units
Thresholds == {2, 3}

----------------------------------------------------------------------------
(* Exact arithmetic standing for the floats of the source *)

Rat(n, d) == [num |-> n, den |-> d]

RatLess(a, b) == a.num * b.den < b.num * a.den

RatEq(a, b) == a.num * b.den = b.num * a.den

RatLeq(a, b) == a.num * b.den <= b.num * a.den

\* two floats hold the same value: both not a number, or equal numbers
SameValue(a, b) ==
    IF a.den = 0 \/ b.den = 0 THEN a.den = b.den ELSE RatEq(a, b)

RECURSIVE SumTo(_, _)
\* f[1] + ... + f[i]
SumTo(f, i) == IF i = 0 THEN 0 ELSE f[i] + SumTo(f, i - 1)

\* the elements of seq at the positions where mask is TRUE, in order
RECURSIVE Compress(_, _)
Compress(seq, mask) ==
    IF seq = <<>> THEN <<>>
    ELSE (IF Head(mask) THEN <<Head(seq)>> ELSE <<>>)
             \o Compress(Tail(seq), Tail(mask))

----------------------------------------------------------------------------
(* Geometry (sphere.py), in the plane *)

Abs(x) == IF x < 0 THEN -x ELSE x

NaN == Rat(0, 0)

\* haversine_km(pos1, pos2) for two points on one grid line
haversine_km(pos1, pos2) ==
    Abs(pos2.latitude - pos1.latitude) + Abs(pos2.longitude - pos1.longitude)

\* haversine_km(pos1, pos2) ** 2 for any two points
haversine_km_squared(pos1, pos2) ==
    (pos2.latitude - pos1.latitude) * (pos2.latitude - pos1.latitude)
      + (pos2.longitude - pos1.longitude) * (pos2.longitude - pos1.longitude)

\* degrees(rad_bearing(pos1, pos2)) in (-180, 180], for two points on one
\* grid line; atan2(0, 0) = 0 for equal points
rad_bearing(pos1, pos2) ==
    IF pos2.longitude > pos1.longitude THEN 90
    ELSE IF pos2.longitude < pos1.longitude THEN -90
    ELSE IF pos2.latitude < pos1.latitude THEN 180
    ELSE 0

\* bearing(pos1, pos2) = (degrees + 360) % 360
bearing(pos1, pos2) == (rad_bearing(pos1, pos2) + 360) % 360

\* path_intersections(pos1, pos2): where the line through pos1 along
\* pos1.bearing meets the line through pos2 along pos2.bearing.  Parallel
\* lines have a zero cross product, which from_n_vector maps to (0, 0).
path_intersections(pos1, pos2) ==
    IF pos1.bearing.num % 180 = 90 /\ pos2.bearing % 180 = 0
    THEN [latitude |-> pos1.latitude, longitude |-> pos2.longitude]
    ELSE IF pos1.bearing.num % 180 = 0 /\ pos2.bearing % 180 = 90
    THEN [latitude |-> pos2.latitude, longitude |-> pos1.longitude]
    ELSE [latitude |-> 0, longitude |-> 0]

\* np.sign(np.cos(np.radians(deg))) for a multiple of 90 degrees between
\* -360 and 360: in floating point cos(radians(90)) is a small positive
\* number and cos(radians(270)) a small negative one, never 0
sign_cos(deg) == IF Abs(deg) \in {0, 90} THEN 1 ELSE -1

----------------------------------------------------------------------------
(* Track ingestion (files.py) *)

\* parse_gpx_data: the track table built from the points of a GPX file.
\* distanceDelta is the distance to the next point (0 for the last point) and
\* distance its cumulative sum; bearing is the direction to the next point,
\* undefined (NaN) at the last point, the first row then overwritten with
\* the value of the second.
parse_gpx_data(points) ==
    LET n == Len(points)
        distanceDelta == [i \in 1 .. n |->
            IF i = n THEN 0 ELSE haversine_km(points[i], points[i + 1])]
        bearing_r == [i \in 1 .. n |->
            IF i = n THEN NaN
            ELSE Rat(rad_bearing(points[i], points[i + 1]), 1)]
    IN  [i \in 1 .. n |->
            [latitude    |-> points[i].latitude,
             longitude   |-> points[i].longitude,
             time        |-> points[i].time,
             timeElapsed |-> points[i].time - points[1].time,
             distance    |-> SumTo(distanceDelta, i),
             bearing     |-> IF i = 1 THEN bearing_r[2] ELSE bearing_r[i]]]

\* the points of a GPX file: n points on latitude 0, one every `period` s
GpxPoints(n, lons, period) ==
    [i \in 1 .. n |->
        [latitude |-> 0, longitude |-> lons[i], time |-> period * (i - 1)]]

GpxTracks ==
    UNION { { parse_gpx_data(GpxPoints(n, lons, period)) :
                lons \in [1 .. n -> Longitudes],
                period \in TimeSteps } : n \in 2 .. MaxGpxLen }

----------------------------------------------------------------------------
(* Tracks with recorded distances, as read from FIT files *)

\* A track of n samples on one spot: the first sample at distance d0, the
\* later ones ds[i] km and ts[i] s after their predecessor.
SplitTrack(n, d0, ds, ts) ==
    [i \in 1 .. n |->
        [latitude    |-> 0,
         longitude   |-> 0,
         time        |-> SumTo(ts, i - 1),
         timeElapsed |-> SumTo(ts, i - 1),
         distance    |-> d0 + SumTo(ds, i - 1),
         bearing     |-> Rat(0, 1)]]

SplitTracks ==
    UNION { { SplitTrack(n, d0, ds, ts) :
                d0 \in FirstDistances,
                ds \in [1 .. n - 1 -> DistSteps],
                ts \in [1 .. n - 1 -> TimeSteps] } : n \in 2 .. MaxLen }

----------------------------------------------------------------------------
(* parse_fit_data (files.py) and read_ludum_data (ludum.py) *)

\* the longest FIT or Ludum file
MaxFitLen == 4

\* _SEMICIRCLE_SCALE, the size of a semicircle (the unit of a FIT position),
\* as semicircles per grid unit
SemicirclesPerUnit == 4

\* longitudes of the points of a FIT or Ludum file, in grid units
FitLongitudes == {0, 1}

\* the position of a FIT record without one: the invalid value of the file
\* format, read as None
NoPosition == 2147483647

\* the bearing columns of parse_fit_data and read_ludum_data, rows already
\* holding latitude and longitude: bearing_r is the direction to the next
\* row, NaN in the last row, which is then overwritten with bearing_r[1],
\* the value of the second row
bearing_last_from_second(rows) ==
    LET n == Len(rows)
        bearing_r == [i \in 1 .. n |->
            IF i = n THEN NaN
            ELSE Rat(rad_bearing(rows[i], rows[i + 1]), 1)]
    IN  [i \in 1 .. n |-> IF i = n THEN bearing_r[2] ELSE bearing_r[i]]

\* the records parse_fit_data keeps: those without a position are dropped
\* (dropna) and the rest relabelled (reset_index)
dropna(records) ==
    Compress(records,
             [i \in 1 .. Len(records) |->
                 /\ records[i].position_lat # NoPosition
                 /\ records[i].position_long # NoPosition])

\* parse_fit_data: positions in grid units, distance the recorded one in km
parse_fit_data(records) ==
    LET kept == dropna(records)
        rows == [i \in 1 .. Len(kept) |->
                    [latitude  |-> kept[i].position_lat \div SemicirclesPerUnit,
                     longitude |-> kept[i].position_long \div SemicirclesPerUnit]]
    IN  [i \in 1 .. Len(kept) |->
            [latitude    |-> rows[i].latitude,
             longitude   |-> rows[i].longitude,
             time        |-> kept[i].timestamp,
             timeElapsed |-> kept[i].timestamp - kept[1].timestamp,
             distance    |-> kept[i].distance \div 1000,
             bearing     |-> bearing_last_from_second(rows)[i]]]

\* read_ludum_data: the track of the returned pair (metadata, positions)
read_ludum_data(data) ==
    LET rows == [i \in 1 .. Len(data) |->
                    [latitude |-> data[i].lat, longitude |-> data[i].long]]
    IN  [i \in 1 .. Len(data) |->
            [latitude    |-> data[i].lat,
             longitude   |-> data[i].long,
             time        |-> data[i].timestamp,
             timeElapsed |-> data[i].timestamp - data[1].timestamp,
             distance    |-> data[i].distance \div 1000,
             bearing     |-> bearing_last_from_second(rows)[i]]]

\* the records of a FIT file: n records on latitude 0, one every `period` s,
\* the recorded distance in metres
FitRecords(n, lons, ds, period) ==
    [i \in 1 .. n |->
        [position_lat  |-> 0,
         position_long |-> IF lons[i] = NoPosition THEN NoPosition
                           ELSE lons[i] * SemicirclesPerUnit,
         timestamp     |-> period * (i - 1),
         distance      |-> 1000 * SumTo(ds, i - 1)]]

\* the positions of a Ludum file
LudumPositions(n, lons, ds, period) ==
    [i \in 1 .. n |->
        [lat       |-> 0,
         long      |-> lons[i],
         timestamp |-> period * (i - 1),
         distance  |-> 1000 * SumTo(ds, i - 1)]]

\* what the three functions do with a table of n rows: positions.index[-1]
\* raises IndexError on an empty table, and bearing_r[1] raises KeyError on
\* a table of one row, which has no label 1
parse_raises(n) ==
    IF n = 0 THEN "IndexError" ELSE IF n = 1 THEN "KeyError" ELSE ""

\* the end of a parse of a table of n rows: the track is returned, or the
\* exception raised
Parsed(n, track, done) ==
    /\ raised' = parse_raises(n)
    /\ IF parse_raises(n) = ""
       THEN positions' = track /\ pc' = done
       ELSE positions' = <<>> /\ pc' = "parse_raised"
    /\ UNCHANGED <<splits_vars, pareto_vars, crossing_vars, more_vars>>

\* the caller is done with the track it read, or with the exception
DropTrack ==
    /\ pc \in {"parsed_gpx", "parsed_fit", "parsed_ludum", "parse_raised"}
    /\ positions' = <<>>
    /\ pc' = "idle"
    /\ raised' = ""
    /\ UNCHANGED <<splits_vars, pareto_vars, crossing_vars, more_vars>>

ParseGpxData ==
    /\ pc = "idle"
    /\ \E n \in 0 .. MaxGpxLen, period \in TimeSteps :
         \E lons \in [1 .. n -> Longitudes] :
            Parsed(n, parse_gpx_data(GpxPoints(n, lons, period)),
                   "parsed_gpx")

ParseFitData ==
    /\ pc = "idle"
    /\ \E n \in 0 .. MaxFitLen, period \in TimeSteps :
         \E lons \in [1 .. n -> FitLongitudes \cup {NoPosition}],
            ds \in [1 .. n - 1 -> DistSteps] :
            Parsed(Len(dropna(FitRecords(n, lons, ds, period))),
                   parse_fit_data(FitRecords(n, lons, ds, period)),
                   "parsed_fit")

ReadLudumData ==
    /\ pc = "idle"
    /\ \E n \in 0 .. MaxFitLen, period \in TimeSteps :
         \E lons \in [1 .. n -> FitLongitudes],
            ds \in [1 .. n - 1 -> DistSteps] :
            Parsed(n, read_ludum_data(LudumPositions(n, lons, ds, period)),
                   "parsed_ludum")

----------------------------------------------------------------------------
(* find_best_times *)

total_distance(pos) == pos[Len(pos)].distance

time_elapsed(pos) == [i \in 1 .. Len(pos) |-> pos[i].timeElapsed]

\* sel: the mask of candidate window starts
sel(pos, d) ==
    [i \in 1 .. Len(pos) |-> pos[i].distance + d < total_distance(pos)]

\* the labels of the rows of positions[sel]
sel_labels(pos, d) ==
    Compress([i \in 1 .. Len(pos) |-> i], sel(pos, d))

\* distances = positions.distance[sel], by position
distances(pos, d) ==
    Compress([i \in 1 .. Len(pos) |-> pos[i].distance], sel(pos, d))

end_distances(pos, d) ==
    [k \in 1 .. Len(distances(pos, d)) |-> distances(pos, d)[k] + d]

\* np.interp(x, xp, fp) for non-decreasing xp: clamped at both ends, the value
\* of the last sample at x when x is a sample, else linear between the last
\* sample at or below x and its successor.
interp(x, xp, fp) ==
    LET n == Len(xp) IN
    IF x > xp[n] THEN Rat(fp[n], 1)
    ELSE IF x < xp[1] THEN Rat(fp[1], 1)
    ELSE LET j == CHOOSE j \in 1 .. n :
                    /\ xp[j] <= x
                    /\ \A i \in 1 .. n : xp[i] <= x => i <= j
         IN  IF j = n \/ xp[j] = x THEN Rat(fp[j], 1)
             ELSE Rat(fp[j] * (xp[j + 1] - xp[j])
                          + (fp[j + 1] - fp[j]) * (x - xp[j]),
                      xp[j + 1] - xp[j])

dist_elapsed(pos, d) ==
    [k \in 1 .. Len(end_distances(pos, d)) |->
        interp(end_distances(pos, d)[k],
               [i \in 1 .. Len(pos) |-> pos[i].distance],
               time_elapsed(pos))]

\* dist_times = dist_elapsed - time_elapsed[sel], by position
dist_times(pos, d) ==
    [k \in 1 .. Len(end_distances(pos, d)) |->
        LET e == dist_elapsed(pos, d)[k]
            t == time_elapsed(pos)[sel_labels(pos, d)[k]]
        IN  Rat(e.num - t * e.den, e.den)]

\* series[label]: the row of a series over positions[sel] with that label
by_label(series, labels, label) ==
    series[CHOOSE k \in 1 .. Len(labels) : labels[k] = label]

RECURSIVE SortedOrders(_, _)
\* argsort: every order of the positions S that sorts key ascending (the order
\* of equal keys is not specified for the default quicksort)
SortedOrders(S, key) ==
    IF S = {} THEN { <<>> }
    ELSE UNION { { <<m>> \o r : r \in SortedOrders(S \ {m}, key) } :
                   m \in { m \in S : \A o \in S : ~RatLess(key[o], key[m]) } }

argsort(key) == SortedOrders(1 .. Len(key), key)

\* searchsorted(v), side left, on a sorted sequence: the number of elements
\* below v
searchsorted(seq, v) == Cardinality({ k \in 1 .. Len(seq) : seq[k] < v })

\* best_ordering[unblocked[best_ordering]][0]
next_best_of(ordering, mask) ==
    Head(Compress(ordering, [k \in 1 .. Len(ordering) |-> mask[ordering[k]]]))

\* a variant of block_i0 that blocks from the selected candidate on, leaving
\* the earlier candidates whose window reaches into the selected one
block_i0_from_selected(pos, d, nb) ==
    searchsorted(distances(pos, d),
                 by_label(distances(pos, d), sel_labels(pos, d), nb))

\* the bounds i0, i1 of the slice blocked after selecting next_best
block_i0(pos, d, nb) ==
    searchsorted(end_distances(pos, d),
                 by_label(distances(pos, d), sel_labels(pos, d), nb))

\* a variant of block_i1 that blocks up to the selected candidate and leaves
\* it unblocked
block_i1_at_selected(pos, d, nb) ==
    searchsorted(distances(pos, d),
                 by_label(distances(pos, d), sel_labels(pos, d), nb))

block_i1(pos, d, nb) ==
    searchsorted(distances(pos, d),
                 by_label(end_distances(pos, d), sel_labels(pos, d), nb))

\* unblocked[i0:i1] = False
block(mask, i0, i1) ==
    [k \in 1 .. Len(mask) |-> IF i0 < k /\ k <= i1 THEN FALSE ELSE mask[k]]

\* a variant of split_row whose pace is per kilometre: time / distance
split_row_per_km(pos, d, b) ==
    LET t == by_label(dist_times(pos, d), sel_labels(pos, d), b) IN
    [start |-> by_label(distances(pos, d), sel_labels(pos, d), b),
     time  |-> t,
     split |-> Rat(t.num, t.den * d)]

\* one row of the returned table: index distances[b].round(3), columns time
\* and split = time / distance / 2
split_row(pos, d, b) ==
    LET t == by_label(dist_times(pos, d), sel_labels(pos, d), b) IN
    [start |-> by_label(distances(pos, d), sel_labels(pos, d), b),
     time  |-> t,
     split |-> Rat(t.num, t.den * d * 2)]

NoSplits == <<>>

FindBestTimesCall ==
    /\ pc = "idle"
    /\ \E d \in TargetDistances :
         /\ distance' = d
         /\ best_ordering' \in argsort(dist_times(positions, d))
         /\ unblocked' = [k \in 1 .. Len(distances(positions, d)) |-> TRUE]
    /\ best' = <<>>
    /\ pc' = "best_loop"
    /\ UNCHANGED <<positions, best_timesplits, pareto_vars, crossing_vars,
                   raised, more_vars>>

\* no candidate was selected twice
NoRepeat(s) == \A a, b \in 1 .. Len(s) : s[a] = s[b] => a = b

\* one iteration of `while unblocked.any()`.  The loop does not end when the
\* slice it blocks is empty: best then grows without bound, and the model
\* follows the loop until a candidate has been selected a second time.
FindBestTimesLoop ==
    /\ pc = "best_loop"
    /\ \E k \in 1 .. Len(unblocked) : unblocked[k]
    /\ NoRepeat(best)
    /\ LET nb == next_best_of(best_ordering, unblocked) IN
         /\ best' = Append(best, nb)
         /\ unblocked' = block(unblocked,
                               block_i0(positions, distance, nb),
                               block_i1(positions, distance, nb))
    /\ UNCHANGED <<positions, pc, distance, best_ordering, best_timesplits,
                   pareto_vars, crossing_vars, raised, more_vars>>

\* the return, for cols=None.  (With cols the averages are read from
\* positions.set_index('distance'), a new frame.)
FindBestTimesReturn ==
    /\ pc = "best_loop"
    /\ \A k \in 1 .. Len(unblocked) : ~unblocked[k]
    /\ best_timesplits' =
         [r \in 1 .. Len(best) |-> split_row(positions, distance, best[r])]
    /\ pc' = "best_done"
    /\ UNCHANGED <<positions, distance, best_ordering, unblocked, best,
                   pareto_vars, crossing_vars, raised, more_vars>>

----------------------------------------------------------------------------
(* calc_pareto_front and is_pareto_efficient *)

RECURSIVE triu_from(_, _, _)
\* np.triu_indices(n, 1): the pairs i < j in row-major order, from (i, j) on
triu_from(n, i, j) ==
    IF i >= n THEN <<>>
    ELSE IF j > n THEN triu_from(n, i + 1, i + 2)
    ELSE <<[i |-> i, j |-> j]>> \o triu_from(n, i, j + 1)

triu_indices(n) == triu_from(n, 1, 2)

\* the rows np.c_[-dist_diffs, -speeds], one per pair of samples: speeds is
\* 1000 * dist_diffs / time_diffs, kept as the exact fraction.  A zero
\* time_diffs gives nan or inf, which nan_to_num turns into 0 or the largest
\* float; sample times are strictly increasing, so it is never zero here.
pair_costs(pos) ==
    LET ij == triu_indices(Len(pos)) IN
    [k \in 1 .. Len(ij) |->
        LET time_diff == pos[ij[k].j].timeElapsed - pos[ij[k].i].timeElapsed
            dist_diff == pos[ij[k].j].distance - pos[ij[k].i].distance
        IN  [c1 |-> Rat(-dist_diff, 1),
             c2 |-> Rat(-1000 * dist_diff, time_diff)]]

\* a variant of nondominated_point_mask that does not set the entry of the
\* point itself
nondominated_point_mask_without_self(cs, npi) ==
    [k \in 1 .. Len(cs) |->
        \/ RatLess(cs[k].c1, cs[npi + 1].c1)
        \/ RatLess(cs[k].c2, cs[npi + 1].c2)]

\* np.any(costs < costs[next_point_index], axis=1), then the entry of the
\* point itself set to True
nondominated_point_mask(cs, npi) ==
    [k \in 1 .. Len(cs) |->
        \/ RatLess(cs[k].c1, cs[npi + 1].c1)
        \/ RatLess(cs[k].c2, cs[npi + 1].c2)
        \/ k = npi + 1]

\* a variant of next_index that steps on without counting the points removed
\* before the current one
next_index_unadjusted(mask, npi) == npi + 1

\* np.sum(nondominated_point_mask[:next_point_index]) + 1
next_index(mask, npi) ==
    Cardinality({ k \in 1 .. npi : mask[k] }) + 1

\* the mask built from the surviving indices
efficient_mask(n_points, eff) ==
    [k \in 1 .. n_points |-> \E e \in 1 .. Len(eff) : eff[e] = k]

CalcParetoFrontCall ==
    /\ pc = "idle"
    /\ costs' = pair_costs(positions)
    /\ is_efficient' = [k \in 1 .. Len(pair_costs(positions)) |-> k]
    /\ next_point_index' = 0
    /\ pc' = "pareto_loop"
    /\ UNCHANGED <<positions, splits_vars, front, crossing_vars, raised,
                   more_vars>>

\* one iteration of `while next_point_index < len(costs)`
IsParetoEfficientLoop ==
    /\ pc = "pareto_loop"
    /\ next_point_index < Len(costs)
    /\ LET mask == nondominated_point_mask(costs, next_point_index) IN
         /\ is_efficient' = Compress(is_efficient, mask)
         /\ costs' = Compress(costs, mask)
         /\ next_point_index' = next_index(mask, next_point_index)
    /\ UNCHANGED <<positions, pc, splits_vars, front, crossing_vars,
                   raised, more_vars>>

CalcParetoFrontReturn ==
    /\ pc = "pareto_loop"
    /\ next_point_index >= Len(costs)
    /\ front' = efficient_mask(Len(pair_costs(positions)), is_efficient)
    /\ pc' = "pareto_done"
    /\ UNCHANGED <<positions, splits_vars, costs, is_efficient,
                   next_point_index, crossing_vars, raised, more_vars>>

----------------------------------------------------------------------------
(* find_crossing_times *)

NoGate == [latitude |-> 0, longitude |-> 0, bearing |-> 0]

\* close_points = haversine_km(positions, loc) < thresh
close_points(pos, gate, th) ==
    [i \in 1 .. Len(pos) |->
        haversine_km_squared(pos[i], gate) < th * th]

\* positions[close_points].copy() with its bearing column set to
\* loc.bearing + 90: the kept rows, each under its label in positions
close_copy(pos, gate, th) ==
    LET labels == Compress([i \in 1 .. Len(pos) |-> i],
                           close_points(pos, gate, th))
    IN  [k \in 1 .. Len(labels) |->
            [label |-> labels[k],
             row   |-> [pos[labels[k]] EXCEPT
                          !.bearing = Rat(gate.bearing + 90, 1)]]]

\* a variant in which the filtered frame shares its rows with the track, so
\* that setting its bearing column writes into the track
track_sharing_rows(pos, gate, th) ==
    [i \in 1 .. Len(pos) |->
        IF close_points(pos, gate, th)[i]
        THEN [pos[i] EXCEPT !.bearing = Rat(gate.bearing + 90, 1)]
        ELSE pos[i]]

\* the caller's track after `close_positions.bearing = loc.bearing + 90`:
\* close_positions is a copy, the track is not written
track_after_filter(pos, gate, th) == pos

\* intersections, by position in close_positions
intersections(close, gate) ==
    [k \in 1 .. Len(close) |-> path_intersections(close[k].row, gate)]

\* sgns = sign(cos(radians(bearing(intersections, loc) - loc.bearing)))
sgns(close, gate) ==
    [k \in 1 .. Len(close) |->
        sign_cos(bearing(intersections(close, gate)[k], gate) - gate.bearing)]

\* a variant of crossings_of that compares the first kept point with a
\* fill value of 0 instead of with itself
crossings_of_zero_fill(close, gate) ==
    LET sg == sgns(close, gate) IN
    Compress([k \in 1 .. Len(close) |-> close[k].label],
             [k \in 1 .. Len(close) |->
                 sg[k] # (IF k = 1 THEN 0 ELSE sg[k - 1])])

\* a variant of crossings_of that compares each kept point with the sample
\* before it in the track, and flags nothing where that sample was dropped
crossings_of_adjacent_samples(close, gate) ==
    LET sg == sgns(close, gate) IN
    Compress([k \in 1 .. Len(close) |-> close[k].label],
             [k \in 1 .. Len(close) |->
                 /\ k > 1
                 /\ close[k - 1].label = close[k].label - 1
                 /\ sg[k] # sg[k - 1]])

\* crossings = bearings.index[sgns != sgns.shift(fill_value=sgns.iloc[0])]:
\* the labels of the kept points whose sign differs from that of the kept
\* point before them
crossings_of(close, gate) ==
    LET sg == sgns(close, gate) IN
    Compress([k \in 1 .. Len(close) |-> close[k].label],
             [k \in 1 .. Len(close) |->
                 sg[k] # (IF k = 1 THEN sg[1] ELSE sg[k - 1])])

\* haversine(intersections.loc[i:i+2], loc): the distances to the gate of
\* the intersections of the kept points labelled i, i + 1 and i + 2 (a label
\* slice includes its end), in order
slice_distances(close, gate, i) ==
    LET ds == [k \in 1 .. Len(close) |->
                  haversine_km(intersections(close, gate)[k], gate)]
    IN  Compress(ds, [k \in 1 .. Len(close) |->
                         i <= close[k].label /\ close[k].label <= i + 2])

\* weight(*ds) = ds[0] / sum(ds).  The distances are unpacked into Python
\* floats, whose division by 0.0 raises ZeroDivisionError.
weight(ds) == Rat(ds[1], SumTo(ds, Len(ds)))

\* a + delta * w for a float w
interpolate(a, delta, w) == Rat(a * w.den + delta * w.num, w.den)

\* the row of the returned series for the crossing flagged at label i: time
\* and distance interpolated between the samples labelled i and i + 1.  The
\* index is crossing_distances.round(3); the model keeps the exact value.
crossing_row(pos, close, gate, i) ==
    LET w == weight(slice_distances(close, gate, i)) IN
    [label    |-> i,
     time     |-> interpolate(pos[i].time,
                              pos[i + 1].time - pos[i].time, w),
     distance |-> interpolate(pos[i].distance,
                              pos[i + 1].distance - pos[i].distance, w)]

\* the call up to `if not sgns.size: return pd.Series([], dtype=float)`
FindCrossingTimesCall ==
    /\ pc = "idle"
    /\ \E gate \in Gates, th \in Thresholds :
         /\ loc' = gate
         /\ thresh' = th
         /\ close_positions' = close_copy(positions, gate, th)
         /\ positions' = track_after_filter(positions, gate, th)
         /\ IF Len(close_copy(positions, gate, th)) = 0
            THEN /\ crossings' = <<>>
                 /\ pc' = "cross_done"
            ELSE /\ crossings' =
                       crossings_of(close_copy(positions, gate, th), gate)
                 /\ pc' = "cross_interpolate"
    /\ crossing_times' = <<>>
    /\ UNCHANGED <<splits_vars, pareto_vars, raised, more_vars>>

\* the rest of the call.  The weights are computed first and raise
\* ZeroDivisionError when the distances of a slice sum to 0; then
\* positions.time[crossings + 1] looks the labels up in the track and raises
\* KeyError when one of them is not a label of it.
FindCrossingTimesInterpolate ==
    /\ pc = "cross_interpolate"
    /\ IF \E c \in 1 .. Len(crossings) :
            weight(slice_distances(close_positions, loc, crossings[c])).den = 0
       THEN /\ raised' = "ZeroDivisionError"
            /\ pc' = "cross_raised"
            /\ UNCHANGED crossing_times
       ELSE IF \E c \in 1 .. Len(crossings) : crossings[c] + 1 > Len(positions)
       THEN /\ raised' = "KeyError"
            /\ pc' = "cross_raised"
            /\ UNCHANGED crossing_times
       ELSE /\ crossing_times' =
                  [c \in 1 .. Len(crossings) |->
                      crossing_row(positions, close_positions, loc,
                                   crossings[c])]
            /\ pc' = "cross_done"
            /\ UNCHANGED raised
    /\ UNCHANGED <<positions, splits_vars, pareto_vars, loc, thresh,
                   close_positions, crossings, more_vars>>

----------------------------------------------------------------------------
(* find_all_crossing_times and get_location_timings *)

\* the default of the parameter thresh of find_crossing_times (0.15 km), in
\* grid units
DefaultThresh == 2

\* the names of the gates of a table, row by row: none, one, two gates of
\* different names, two gates of the same name
NamePatterns == { <<>>, <<"a">>, <<"a", "b">>, <<"a", "a">> }

\* the order of the names when an index is sorted
NameRank(name) == IF name = "a" THEN 1 ELSE 2

\* the gates of the tables: on latitude 0, facing east or west
TimingGates == { g \in Gates : g.bearing # 0 }

\* the tables of gates (locations): each row a name and a gate
LocationTables ==
    UNION { { [k \in 1 .. Len(names) |-> [name |-> names[k], pos |-> gs[k]]] :
                gs \in [1 .. Len(names) -> TimingGates] } :
            names \in NamePatterns }

\* the tracks handed to the timing functions: one sample every 100 s, none
\* west of longitude -1
TimingTracks ==
    { t \in GpxTracks :
        t[2].time = 100 /\ \A i \in 1 .. Len(t) : t[i].longitude >= -1 }

\* the threshold find_crossing_times filters with when it is called from
\* find_all_crossing_times: the call `find_crossing_times(positions, pos)`
\* gives none, so it is the default
thresh_used(th) == DefaultThresh

\* find_crossing_times(positions, loc, thresh) as a function of its
\* arguments: the exception it raises, or the rows of the series it returns
find_crossing_times(pos, gate, th) ==
    LET close == close_copy(pos, gate, th)
        flagged == crossings_of(close, gate)
    IN  IF \E c \in 1 .. Len(flagged) :
               weight(slice_distances(close, gate, flagged[c])).den = 0
        THEN [raised |-> "ZeroDivisionError", rows |-> <<>>]
        ELSE IF \E c \in 1 .. Len(flagged) : flagged[c] + 1 > Len(pos)
        THEN [raised |-> "KeyError", rows |-> <<>>]
        ELSE [raised |-> "",
              rows   |-> [c \in 1 .. Len(flagged) |->
                             crossing_row(pos, close, gate, flagged[c])]]

\* round(3) of a non-negative value: the nearest multiple of 1/1000
round3(r) == Rat((2000 * r.num + r.den) \div (2 * r.den), 1000)

\* the rows gate g of the table adds to the concatenated series: its
\* crossings under its name, indexed by the rounded distance.  The series
\* are collected in a dict keyed by name, so of the gates of one name the
\* last one stays.
rows_of_gate(pos, locs, g, th) ==
    IF \E h \in g + 1 .. Len(locs) : locs[h].name = locs[g].name THEN <<>>
    ELSE LET rows == find_crossing_times(pos, locs[g].pos, th).rows IN
         [c \in 1 .. Len(rows) |->
             [location |-> locs[g].name,
              distance |-> round3(rows[c].distance),
              time     |-> rows[c].time]]

RECURSIVE concat(_, _, _, _)
\* pd.concat of the series of the gates g, g + 1, ... of the table
concat(pos, locs, g, th) ==
    IF g > Len(locs) THEN <<>>
    ELSE rows_of_gate(pos, locs, g, th) \o concat(pos, locs, g + 1, th)

\* row a sorts before row b: by distance, then by name (sort_index(level=1)
\* sorts by the remaining level too)
SortsBefore(a, b) ==
    \/ RatLess(a.distance, b.distance)
    \/ RatEq(a.distance, b.distance)
         /\ NameRank(a.location) < NameRank(b.location)

RECURSIVE sort_index(_, _)
\* every order of the rows S of a series that sort_index(level=1) may give
sort_index(S, rows) ==
    IF S = {} THEN { <<>> }
    ELSE UNION { { <<rows[m]>> \o r : r \in sort_index(S \ {m}, rows) } :
                   m \in { m \in S :
                             \A o \in S : ~SortsBefore(rows[o], rows[m]) } }

\* a variant of leg that counts the crossings whose gate differs from the
\* gate of the crossing before them
leg_of_changes(times, r) ==
    Cardinality({ q \in 2 .. r : times[q].location # times[q - 1].location })

\* times['leg'] = (times.location == times.location.shift()).cumsum()
leg(times, r) ==
    Cardinality({ q \in 2 .. r : times[q].location = times[q - 1].location })

\* the first exception a call of find_crossing_times on the gates of the
\* table raises, "" if none does; pd.concat raises ValueError on no series
all_crossing_raises(pos, locs, th) ==
    IF Len(locs) = 0 THEN "ValueError"
    ELSE IF \A g \in 1 .. Len(locs) :
               find_crossing_times(pos, locs[g].pos, th).raised = ""
    THEN ""
    ELSE LET g == CHOOSE g \in 1 .. Len(locs) :
                    /\ find_crossing_times(pos, locs[g].pos, th).raised # ""
                    /\ \A h \in 1 .. g - 1 :
                         find_crossing_times(pos, locs[h].pos, th).raised = ""
         IN  find_crossing_times(pos, locs[g].pos, th).raised

\* a - b and a / b on floats; a division by zero gives a value that is not
\* a number
RatSub(a, b) == Rat(a.num * b.den - b.num * a.den, a.den * b.den)

RatDiv(a, b) ==
    IF b.num = 0 THEN NaN
    ELSE IF b.num < 0 THEN Rat(-(a.num * b.den), -(a.den * b.num))
    ELSE Rat(a.num * b.den, a.den * b.num)

\* dist_diffs: twice the differences of the distances of the index, with
\* every entry on or below the diagonal (np.tril_indices) set to 1
dist_diffs(times, r, c) ==
    IF r >= c THEN Rat(1, 1)
    ELSE LET d == RatSub(times[r].distance, times[c].distance)
         IN  Rat(2 * d.num, d.den)

\* loc_timings = (times[:, None] - times[None, :]) / dist_diffs
timings_matrix(times) ==
    [r \in 1 .. Len(times) |->
        [c \in 1 .. Len(times) |->
            RatDiv(RatSub(times[r].time, times[c].time),
                   dist_diffs(times, r, c))]]

\* find_all_crossing_times(positions, locations, thresh), ending at done or
\* at failed
AllCrossingTimes(locs, th, done, failed) ==
    LET exc == all_crossing_raises(positions, locs, thresh_used(th)) IN
    /\ locations' = locs
    /\ thresh' = th
    /\ close_by_gate' =
         [g \in 1 .. Len(locs) |->
             close_copy(positions, locs[g].pos, thresh_used(th))]
    /\ raised' = exc
    /\ IF exc # ""
       THEN /\ loc_times' = <<>>
            /\ pc' = failed
       ELSE /\ \E sorted \in
                   LET rows == concat(positions, locs, 1, thresh_used(th))
                   IN  sort_index(1 .. Len(rows), rows) :
                 loc_times' = [r \in 1 .. Len(sorted) |->
                     [leg      |-> leg(sorted, r),
                      location |-> sorted[r].location,
                      distance |-> sorted[r].distance,
                      time     |-> sorted[r].time]]
            /\ pc' = done
    /\ UNCHANGED <<positions, splits_vars, pareto_vars, loc, close_positions,
                   crossings, crossing_times, batch_vars, login_vars>>

FindAllCrossingTimes ==
    /\ pc = "idle"
    /\ \E locs \in LocationTables, th \in Thresholds :
         AllCrossingTimes(locs, th, "all_done", "all_raised")
    /\ UNCHANGED loc_timings

\* get_location_timings: the series of find_all_crossing_times, then the
\* matrix of the pairs of its rows
GetLocationTimings ==
    /\ pc = "idle"
    /\ \E locs \in LocationTables, th \in Thresholds :
         AllCrossingTimes(locs, th, "timings_done", "timings_raised")
    /\ loc_timings' = timings_matrix(loc_times')

----------------------------------------------------------------------------
(* map_concurrent (utils.py) *)

\* the keys an inputs dict may have
Keys == {"k1", "k2", "k3"}

\* max_workers: the number of calls of func the executor runs at a time
MaxWorkers == 2

\* what func(*args) returns for the item with that key
Result(k) == <<"result", k>>

\* the exception func(*args) raises for the item with that key
Exc(k) == <<"exception", k>>

\* the states of a future in which its call has ended: it returned, raised
\* an Exception, or raised a BaseException that is not an Exception
Finished == {"returned", "Exception", "BaseException"}

NoWork == [k \in {} |-> "pending"]

NoResults == [k \in {} |-> <<>>]

\* the keys whose future the collecting loop has taken
Collected == DOMAIN output \cup DOMAIN errors

\* a variant of reraise that re-raises whatever raise_on_err says
reraise_always(flag) == TRUE

\* `if raise_on_err: raise exc`
reraise(flag) == flag

\* the call up to the loop: every item is submitted to the executor
MapConcurrentCall ==
    /\ pc = "idle"
    /\ inputs' \in SUBSET Keys
    /\ raise_on_err' \in BOOLEAN
    /\ work' = [k \in inputs' |-> "pending"]
    /\ output' = NoResults
    /\ errors' = NoResults
    /\ pc' = "map_collect"
    /\ UNCHANGED <<positions, splits_vars, pareto_vars, crossing_vars, raised,
                   timing_vars, login_vars>>

\* a worker of the executor takes a submitted item and calls func
WorkerStart(k) ==
    /\ pc \in {"map_collect", "map_exit"}
    /\ work[k] = "pending"
    /\ Cardinality({ j \in inputs : work[j] = "running" }) < MaxWorkers
    /\ work' = [work EXCEPT ![k] = "running"]
    /\ UNCHANGED <<positions, pc, splits_vars, pareto_vars, crossing_vars,
                   raised, timing_vars, login_vars, inputs, raise_on_err,
                   output, errors>>

\* the call of func ends and the worker sets the future
WorkerFinish(k) ==
    /\ pc \in {"map_collect", "map_exit"}
    /\ work[k] = "running"
    /\ \E outcome \in Finished : work' = [work EXCEPT ![k] = outcome]
    /\ UNCHANGED <<positions, pc, splits_vars, pareto_vars, crossing_vars,
                   raised, timing_vars, login_vars, inputs, raise_on_err,
                   output, errors>>

\* one iteration of `for future in as_completed(work)`: a finished future is
\* taken and its result or exception collected; an exception that is
\* re-raised or not caught leaves the loop
MapConcurrentCollect(k) ==
    /\ pc = "map_collect"
    /\ work[k] \in Finished
    /\ k \notin Collected
    /\ IF work[k] = "returned"
       THEN /\ output' = (k :> Result(k)) @@ output
            /\ UNCHANGED <<errors, raised, pc>>
       ELSE IF work[k] = "BaseException" \/ reraise(raise_on_err)
       THEN /\ raised' = work[k]
            /\ pc' = "map_exit"
            /\ UNCHANGED <<output, errors>>
       ELSE /\ errors' = (k :> Exc(k)) @@ errors
            /\ UNCHANGED <<output, raised, pc>>
    /\ UNCHANGED <<positions, splits_vars, pareto_vars, crossing_vars,
                   timing_vars, login_vars, inputs, raise_on_err, work>>

\* the loop has taken every future: the executor is left and the two maps
\* are returned
MapConcurrentReturn ==
    /\ pc = "map_collect"
    /\ Collected = inputs
    /\ pc' = "map_done"
    /\ UNCHANGED <<positions, splits_vars, pareto_vars, crossing_vars, raised,
                   timing_vars, login_vars, batch_vars>>

\* an exception leaves the `with` block: the executor waits for the items
\* still pending or running, then the exception reaches the caller
MapConcurrentExit ==
    /\ pc = "map_exit"
    /\ \A k \in inputs : work[k] \in Finished
    /\ pc' = "map_raised"
    /\ UNCHANGED <<positions, splits_vars, pareto_vars, crossing_vars, raised,
                   timing_vars, login_vars, batch_vars>>

----------------------------------------------------------------------------
(* login and get_api (garmin.py) *)

\* the most attempts a caller of login asks for
MaxRetries == 3

\* max_retries=5, the default, which the call login() of get_api takes
DefaultMaxRetries == 5

\* the most calls of login in the life of the process
MaxLogins == 3

\* the object made by Garmin(**creds) in attempt k of call c of login, and
\* whether its login() has returned
Garmin(c, k, ok) == [call |-> c, try |-> k, logged_in |-> ok]

\* Python's None, as a value of the shape of a session object
None == Garmin(0, 0, FALSE)

\* the local api of login before its first assignment
Unbound == Garmin(-1, 0, FALSE)

\* a session the caller of get_api made and passes as the argument
CallerSession == Garmin(0, 1, TRUE)

\* the exceptions the except clause of login names
GarminErrors == {"GarminConnectConnectionError",
                 "GarminConnectAuthenticationError",
                 "GarminConnectTooManyRequestsError"}

\* how an attempt ends: api.login() returns, it raises one of the named
\* exceptions, or the attempt raises any other exception
Outcomes == {"ok", "Exception"} \cup GarminErrors

\* the truth value `or` tests: an object of a class without __bool__ and
\* __len__ is true, None is false
truthy(x) == x # None

\* a variant of last_attempt that compares the loop variable itself
last_attempt_past_end(i, n) == i = n

\* `if i + 1 == max_retries`
last_attempt(i, n) == i + 1 = n

\* login up to the loop, called with max_retries = n; by_get_api says that
\* the call is the last operand of get_api
LoginStart(n, by_get_api) ==
    /\ logins < MaxLogins
    /\ logins' = logins + 1
    /\ max_retries' = n
    /\ login_i' = 0
    /\ api' = Unbound
    /\ err' = ""
    /\ attempts' = <<>>
    /\ in_get_api' = by_get_api
    /\ returned_api' = None
    /\ pc' = IF n > 0 THEN "login_loop" ELSE "login_return"
    /\ UNCHANGED <<_API, raised>>

\* a call of login by the user of the module
LoginCall ==
    /\ pc = "idle"
    /\ \E n \in 0 .. MaxRetries : LoginStart(n, FALSE)
    /\ api_arg' = None
    /\ UNCHANGED <<positions, splits_vars, pareto_vars, crossing_vars,
                   timing_vars, batch_vars>>

\* one iteration of `for i in range(max_retries)`.  An exception the except
\* clause does not name comes from Garmin(**creds), before api is assigned,
\* or from api.login(), after it.
LoginAttempt ==
    /\ pc = "login_loop"
    /\ login_i < max_retries
    /\ \E o \in Outcomes :
         /\ attempts' = Append(attempts, o)
         /\ IF o = "ok"
            THEN /\ api' = Garmin(logins, login_i + 1, TRUE)
                 /\ _API' = api'
                 /\ pc' = "login_return"
                 /\ UNCHANGED <<login_i, err, raised>>
            ELSE IF o \in GarminErrors
            THEN /\ api' = Garmin(logins, login_i + 1, FALSE)
                 /\ err' = o
                 /\ IF last_attempt(login_i, max_retries)
                    THEN /\ raised' = o
                         /\ pc' = "login_raised"
                         /\ UNCHANGED login_i
                    ELSE /\ login_i' = login_i + 1
                         /\ pc' = IF login_i + 1 < max_retries
                                  THEN "login_loop" ELSE "login_return"
                         /\ UNCHANGED raised
                 /\ UNCHANGED _API
            ELSE /\ api' \in {api, Garmin(logins, login_i + 1, FALSE)}
                 /\ raised' = o
                 /\ pc' = "login_raised"
                 /\ UNCHANGED <<login_i, err, _API>>
    /\ UNCHANGED <<positions, splits_vars, pareto_vars, crossing_vars,
                   timing_vars, batch_vars, logins, max_retries, api_arg,
                   in_get_api, returned_api>>

\* `return api`, after break or after the last iteration; get_api returns
\* what its operand login() returns
LoginReturn ==
    /\ pc = "login_return"
    /\ IF api = Unbound
       THEN /\ raised' = "UnboundLocalError"
            /\ pc' = "login_raised"
            /\ UNCHANGED returned_api
       ELSE /\ returned_api' = api
            /\ pc' = IF in_get_api THEN "get_api_done" ELSE "login_done"
            /\ UNCHANGED raised
    /\ UNCHANGED <<positions, splits_vars, pareto_vars, crossing_vars,
                   timing_vars, batch_vars, _API, logins, max_retries,
                   login_i, api, err, attempts, api_arg, in_get_api>>

\* `return api or _API or login()`
GetApi ==
    /\ pc = "idle"
    /\ \E a \in {None, CallerSession} :
         /\ api_arg' = a
         /\ IF truthy(a) \/ truthy(_API)
            THEN /\ returned_api' = IF truthy(a) THEN a ELSE _API
                 /\ pc' = "get_api_done"
                 /\ UNCHANGED <<_API, logins, max_retries, login_i, api, err,
                                attempts, in_get_api, raised>>
            ELSE LoginStart(DefaultMaxRetries, TRUE)
    /\ UNCHANGED <<positions, splits_vars, pareto_vars, crossing_vars,
                   timing_vars, batch_vars>>

\* the process ends and a new one imports the module: `_API = None`
Restart ==
    /\ pc = "idle"
    /\ logins > 0
    /\ _API' = None
    /\ logins' = 0
    /\ UNCHANGED <<positions, pc, splits_vars, pareto_vars, crossing_vars,
                   raised, timing_vars, batch_vars, max_retries, login_i,
                   api, err, attempts, api_arg, in_get_api, returned_api>>

----------------------------------------------------------------------------
(* The caller takes the result; the locals of the call are gone. *)

Reset ==
    /\ pc \in {"best_done", "pareto_done", "cross_done", "cross_raised",
               "all_done", "all_raised", "timings_done", "timings_raised",
               "map_done", "map_raised", "login_done", "login_raised",
               "get_api_done"}
    /\ pc' = "idle"
    /\ distance' = 0
    /\ best_ordering' = <<>>
    /\ unblocked' = <<>>
    /\ best' = <<>>
    /\ best_timesplits' = NoSplits
    /\ costs' = <<>>
    /\ is_efficient' = <<>>
    /\ next_point_index' = 0
    /\ front' = <<>>
    /\ loc' = NoGate
    /\ thresh' = 0
    /\ close_positions' = <<>>
    /\ crossings' = <<>>
    /\ crossing_times' = <<>>
    /\ raised' = ""
    /\ locations' = <<>>
    /\ close_by_gate' = <<>>
    /\ loc_times' = <<>>
    /\ loc_timings' = <<>>
    /\ inputs' = {}
    /\ raise_on_err' = FALSE
    /\ work' = NoWork
    /\ output' = NoResults
    /\ errors' = NoResults
    /\ max_retries' = 0
    /\ login_i' = 0
    /\ api' = Unbound
    /\ err' = ""
    /\ attempts' = <<>>
    /\ api_arg' = None
    /\ in_get_api' = FALSE
    /\ returned_api' = None
    /\ UNCHANGED <<positions, _API, logins>>

----------------------------------------------------------------------------
(* Specifications *)

InitLocals ==
    /\ pc = "idle"
    /\ distance = 0
    /\ best_ordering = <<>>
    /\ unblocked = <<>>
    /\ best = <<>>
    /\ best_timesplits = NoSplits
    /\ costs = <<>>
    /\ is_efficient = <<>>
    /\ next_point_index = 0
    /\ front = <<>>
    /\ loc = NoGate
    /\ thresh = 0
    /\ close_positions = <<>>
    /\ crossings = <<>>
    /\ crossing_times = <<>>
    /\ raised = ""
    /\ locations = <<>>
    /\ close_by_gate = <<>>
    /\ loc_times = <<>>
    /\ loc_timings = <<>>
    /\ inputs = {}
    /\ raise_on_err = FALSE
    /\ work = NoWork
    /\ output = NoResults
    /\ errors = NoResults
    /\ _API = None
    /\ logins = 0
    /\ max_retries = 0
    /\ login_i = 0
    /\ api = Unbound
    /\ err = ""
    /\ attempts = <<>>
    /\ api_arg = None
    /\ in_get_api = FALSE
    /\ returned_api = None

InitSplits ==
    /\ positions \in SplitTracks
    /\ InitLocals

Init ==
    /\ positions \in GpxTracks
    /\ InitLocals

Next ==
    \/ FindCrossingTimesCall
    \/ FindCrossingTimesInterpolate
    \/ FindBestTimesCall
    \/ FindBestTimesLoop
    \/ FindBestTimesReturn
    \/ CalcParetoFrontCall
    \/ IsParetoEfficientLoop
    \/ CalcParetoFrontReturn
    \/ Reset

Spec == Init /\ [][Next]_vars

NextSplits ==
    \/ FindBestTimesCall
    \/ FindBestTimesLoop
    \/ FindBestTimesReturn
    \/ CalcParetoFrontCall
    \/ IsParetoEfficientLoop
    \/ CalcParetoFrontReturn
    \/ Reset

SpecSplits == InitSplits /\ [][NextSplits]_vars

\* the tracks that leave room for the fair runs of the selection loop
InitSelection ==
    /\ positions \in { t \in SplitTracks : Len(t) < MaxLen }
    /\ InitLocals

\* The loop of find_best_times is sequential code: an iteration that can
\* run does run.
SpecSelectionFair ==
    /\ InitSelection
    /\ [][NextSplits]_vars
    /\ WF_vars(FindBestTimesLoop)

\* The loop of is_pareto_efficient is sequential code: an iteration that can
\* run does run.
SpecSweepFair == SpecSplits /\ WF_vars(IsParetoEfficientLoop)

\* the functions that time a track over a table of gates
InitTimings ==
    /\ positions \in TimingTracks
    /\ InitLocals

NextTimings ==
    \/ FindAllCrossingTimes
    \/ GetLocationTimings
    \/ Reset

SpecTimings == InitTimings /\ [][NextTimings]_vars

\* the functions that read a track from a file
InitIngest ==
    /\ positions = <<>>
    /\ InitLocals

NextIngest ==
    \/ ParseGpxData
    \/ ParseFitData
    \/ ReadLudumData
    \/ DropTrack

SpecIngest == InitIngest /\ [][NextIngest]_vars

\* map_concurrent alone; it takes no track
InitBatch ==
    /\ positions = <<>>
    /\ InitLocals

NextBatch ==
    \/ MapConcurrentCall
    \/ \E k \in inputs : WorkerStart(k)
    \/ \E k \in inputs : WorkerFinish(k)
    \/ \E k \in inputs : MapConcurrentCollect(k)
    \/ MapConcurrentReturn
    \/ MapConcurrentExit
    \/ Reset

\* The executor runs every submitted item, each call of func ends, and the
\* calling thread runs on: every step that can be taken is taken.
SpecBatch ==
    /\ InitBatch
    /\ [][NextBatch]_vars
    /\ \A k \in Keys : WF_vars(k \in inputs /\ WorkerStart(k))
    /\ \A k \in Keys : WF_vars(k \in inputs /\ WorkerFinish(k))
    /\ \A k \in Keys : WF_vars(k \in inputs /\ MapConcurrentCollect(k))
    /\ WF_vars(MapConcurrentReturn)
    /\ WF_vars(MapConcurrentExit)

\* login and get_api alone; they take no track
InitLogin ==
    /\ positions = <<>>
    /\ InitLocals

NextLogin ==
    \/ LoginCall
    \/ GetApi
    \/ LoginAttempt
    \/ LoginReturn
    \/ Reset
    \/ Restart

SpecLogin == InitLogin /\ [][NextLogin]_vars

----------------------------------------------------------------------------
(* Claims about find_best_times *)

\* the candidate rows (positions in distances) of the running call
Candidates == 1 .. Len(unblocked)

\* the windows [a, a + d] and [b, b + d] do not overlap: one ends at or
\* before the other starts
Apart(a, b, d) == a + d <= b \/ b + d <= a

\* C1: for a track with non-decreasing distance and a target d > 0, any two
\* distinct rows of the table find_best_times returns have windows
\* [start, start + d] that do not overlap.
C1_SplitsDoNotOverlap ==
    (pc = "best_done" /\ distance > 0) =>
        \A a, b \in 1 .. Len(best_timesplits) :
            a # b => Apart(best_timesplits[a].start,
                           best_timesplits[b].start, distance)

\* a call with d > 0 has returned several windows and left a candidate out
C1_Witness ==
    /\ pc = "best_done"
    /\ distance > 0
    /\ Len(best_timesplits) >= 2
    /\ Len(best_timesplits) < Len(unblocked)

\* C2 as stated: the first selected window has the least elapsed time of all
\* candidates, and every later one the least among the candidates whose
\* window overlaps no window selected before it.
C2_FastestOfNonOverlapping ==
    (pc \in {"best_loop", "best_done"} /\ distance > 0) =>
        \A r \in 1 .. Len(best) : \A k \in Candidates :
            (\A q \in 1 .. r - 1 :
                Apart(distances(positions, distance)[k],
                      distances(positions, distance)[best[q]], distance))
            => ~RatLess(dist_times(positions, distance)[k],
                        dist_times(positions, distance)[best[r]])

\* C6 as stated: the candidate window starts are exactly the samples with
\* distance + d <= total distance.
C6_CandidatesReachTheEnd ==
    (pc = "best_loop") =>
        { sel_labels(positions, distance)[k] : k \in Candidates }
          = { i \in 1 .. Len(positions) :
                positions[i].distance + distance
                    <= total_distance(positions) }

\* the track of the scenario: 5 samples 1 km and 100 s apart
ScenarioTrack ==
    /\ Len(positions) = 5
    /\ \A i \in 1 .. 4 :
         /\ positions[i + 1].distance = positions[i].distance + 1
         /\ positions[i + 1].timeElapsed = positions[i].timeElapsed + 100

\* C7: for the track of 5 samples 1 km and 100 s apart and the target 2 km,
\* find_best_times returns one split, of elapsed time 200 s and split pace
\* 200 / 2 / 2 = 50 s.
C7_ScenarioSplit ==
    (pc = "best_done" /\ ScenarioTrack /\ distance = 2) =>
        /\ Len(best_timesplits) = 1
        /\ RatEq(best_timesplits[1].time, Rat(200, 1))
        /\ RatEq(best_timesplits[1].split, Rat(50, 1))

\* the call of the scenario has returned
C7_Witness ==
    pc = "best_done" /\ ScenarioTrack /\ distance = 2

\* C8 as stated: a call with a negative target distance raises at its
\* boundary: it neither enters the selection loop nor returns a table.
C8_NegativeTargetRaises ==
    distance < 0 => pc \notin {"best_loop", "best_done"}

\* the number of candidates a mask leaves unblocked
Unblocked(mask) == Cardinality({ k \in 1 .. Len(mask) : mask[k] })

\* C18: for a track with non-decreasing distance and a target d > 0, every
\* iteration of the selection loop of find_best_times blocks the candidate
\* it selects, so the number of unblocked candidates goes down, no candidate
\* is selected twice, and the loop ends: it comes to a state with no
\* unblocked candidate, where `while unblocked.any()` is left.
C18_SelectionLoopEnds ==
    /\ [][(FindBestTimesLoop /\ distance > 0) =>
            /\ unblocked[next_best_of(best_ordering, unblocked)]
            /\ ~unblocked'[next_best_of(best_ordering, unblocked)]
            /\ Unblocked(unblocked') < Unblocked(unblocked)]_vars
    /\ []((pc = "best_loop" /\ distance > 0) => NoRepeat(best))
    /\ (pc = "best_loop" /\ distance > 0)
         ~> (pc = "best_loop" /\ Unblocked(unblocked) = 0)

\* the loop has run once for a target d > 0, has blocked several candidates
\* at once and has candidates left
C18_Witness ==
    /\ pc = "best_loop"
    /\ distance > 0
    /\ Len(best) = 1
    /\ Unblocked(unblocked) >= 1
    /\ Unblocked(unblocked) + 2 <= Len(unblocked)

----------------------------------------------------------------------------
(* Claims about calc_pareto_front *)

\* point a of the track is at least as good as point b in distance and in
\* speed (costs are the negated distance and speed)
Dominates(a, b) ==
    /\ RatLeq(pair_costs(positions)[a].c1, pair_costs(positions)[b].c1)
    /\ RatLeq(pair_costs(positions)[a].c2, pair_costs(positions)[b].c2)

\* C3: the points kept by is_pareto_efficient, as calc_pareto_front uses it,
\* are an antichain (no kept point is at least as good as another kept point
\* in both distance and speed), and every point left out is dominated by a
\* kept point.
C3_FrontIsAntichainAndCovers ==
    (pc = "pareto_done") =>
        /\ \A a, b \in 1 .. Len(front) :
             (a # b /\ front[a] /\ front[b]) => ~Dominates(a, b)
        /\ \A a \in 1 .. Len(front) :
             ~front[a] => \E b \in 1 .. Len(front) :
                             front[b] /\ Dominates(b, a)

\* a front of several points that leaves points out, one of them removed by
\* a point that was itself removed later
C3_Witness ==
    /\ pc = "pareto_done"
    /\ Cardinality({ a \in 1 .. Len(front) : front[a] }) >= 2
    /\ \E a \in 1 .. Len(front) : ~front[a]

\* the working point at position p is kept by the step: its index is still
\* among the surviving indices
KeptByStep(p) ==
    \E e \in 1 .. Len(is_efficient') : is_efficient'[e] = is_efficient[p]

\* the working point at position p is dominated by the one at position q:
\* no cost of p is below the cost of q
DominatedBy(p, q) ==
    /\ ~RatLess(costs[p].c1, costs[q].c1)
    /\ ~RatLess(costs[p].c2, costs[q].c2)

\* C19: the sweep of is_pareto_efficient ends (it comes to a state where
\* `while next_point_index < len(costs)` is left); a step removes neither the
\* point it examines nor a point examined before that the examined point
\* does not dominate, and it leaves fewer points to examine; the indices
\* returned for return_mask=False (is_efficient) are, in increasing order,
\* the positions where the mask returned for return_mask=True is true.
C19_SweepEndsAndKeepsExamined ==
    /\ [][IsParetoEfficientLoop =>
            /\ KeptByStep(next_point_index + 1)
            /\ \A p \in 1 .. next_point_index :
                 ~DominatedBy(p, next_point_index + 1) => KeptByStep(p)
            /\ Len(costs') - next_point_index'
                 < Len(costs) - next_point_index]_vars
    /\ [](pc = "pareto_done" =>
            /\ \A k \in 1 .. Len(front) :
                 front[k] <=> \E e \in 1 .. Len(is_efficient) :
                                  is_efficient[e] = k
            /\ \A e \in 1 .. Len(is_efficient) - 1 :
                 is_efficient[e] < is_efficient[e + 1])
    /\ (pc = "pareto_loop")
         ~> (pc = "pareto_loop" /\ next_point_index >= Len(costs))

\* the sweep is under way: points were removed, two or more points were
\* examined and kept, and there are points left to examine
C19_Witness ==
    /\ pc = "pareto_loop"
    /\ next_point_index >= 2
    /\ Len(costs) < Len(pair_costs(positions))
    /\ next_point_index < Len(costs)

----------------------------------------------------------------------------
(* Claims about find_crossing_times *)

\* the positions in close_positions whose sign differs from the sign of the
\* kept point before them
SignChanges ==
    { k \in 2 .. Len(close_positions) :
        sgns(close_positions, loc)[k] # sgns(close_positions, loc)[k - 1] }

\* C4 as stated, for the calls that return: when the sign of the kept points
\* changes exactly once, the call returns exactly one crossing, and its
\* distance lies strictly between the distances of the last sample before
\* the change and the first sample after it.
C4_OneCrossingBetweenBracketingSamples ==
    (pc = "cross_done" /\ Cardinality(SignChanges) = 1) =>
        /\ Len(crossing_times) = 1
        /\ LET k == CHOOSE k \in SignChanges : TRUE
               before == positions[close_positions[k - 1].label].distance
               after == positions[close_positions[k].label].distance
           IN  /\ RatLess(Rat(before, 1), crossing_times[1].distance)
               /\ RatLess(crossing_times[1].distance, Rat(after, 1))

\* C5: with no track point or exactly one track point within the threshold
\* of the gate, find_crossing_times flags no crossing, does not raise and
\* returns an empty series.
C5_FewClosePointsNoCrossing ==
    (pc \in {"cross_interpolate", "cross_done", "cross_raised"}
        /\ Len(close_positions) <= 1) =>
        /\ crossings = <<>>
        /\ crossing_times = <<>>
        /\ raised = ""
        /\ pc # "cross_raised"

\* a call that kept exactly one point has returned
C5_Witness ==
    pc = "cross_done" /\ Len(close_positions) = 1

\* C9 as stated, in the case it names: find_crossing_times returns, and does
\* not fail looking up the sample after the flagged one, when the sample
\* flagged for a sign change is the last sample of the track.
C9_ReturnsWhenLastSampleFlagged ==
    (\E c \in 1 .. Len(crossings) : crossings[c] = Len(positions))
        => raised # "KeyError"

\* C15: the labels find_crossing_times flags are those of the kept points
\* whose side-sign differs from that of the kept point before them in the
\* filtered sequence, and no others: as many as the kept sign sequence has
\* changes, and never the first kept point.
C15_FlagsTheSignChanges ==
    (pc \in {"cross_interpolate", "cross_done", "cross_raised"}) =>
        /\ Len(crossings) = Cardinality(SignChanges)
        /\ \A i \in 1 .. Len(positions) :
             (\E c \in 1 .. Len(crossings) : crossings[c] = i)
               <=> (\E k \in SignChanges : close_positions[k].label = i)
        /\ \A c \in 1 .. Len(crossings) :
             crossings[c] # close_positions[1].label
        /\ pc = "cross_done" => Len(crossing_times) = Cardinality(SignChanges)

\* a call has flagged a kept point whose predecessor in the filtered
\* sequence is not the sample before it in the track
C15_Witness ==
    /\ pc \in {"cross_interpolate", "cross_done", "cross_raised"}
    /\ \E k \in SignChanges :
         close_positions[k].label > close_positions[k - 1].label + 1

\* the distance to the gate of the intersection of kept point k
GateDistance(k) ==
    haversine_km(intersections(close_positions, loc)[k], loc)

\* the value interpolated between the kept points k - 1 and k, the pair
\* around a sign change, with the weight d / (d + d_next) of their distances
BetweenBracketing(column, k) ==
    LET before == close_positions[k - 1].label
        after == close_positions[k].label
        w == Rat(GateDistance(k - 1), GateDistance(k - 1) + GateDistance(k))
    IN  interpolate(column[before], column[after] - column[before], w)

\* C16 as stated: for each crossing returned, the weight is computed from
\* exactly two distances, those of the intersections of the two kept points
\* around the sign change, w = d_i / (d_i + d_{i+1}), and the time and the
\* distance of the crossing are interpolated between those two samples
\* with w.
C16_WeightOfTheBracketingPair ==
    (pc = "cross_done") =>
        \A c \in 1 .. Len(crossing_times) :
            LET k == CHOOSE k \in SignChanges :
                         close_positions[k].label = crossings[c]
            IN  /\ Len(slice_distances(close_positions, loc,
                                       crossings[c])) = 2
                /\ SameValue(crossing_times[c].time,
                       BetweenBracketing(
                           [i \in 1 .. Len(positions) |-> positions[i].time],
                           k))
                /\ SameValue(crossing_times[c].distance,
                       BetweenBracketing(
                           [i \in 1 .. Len(positions) |->
                               positions[i].distance], k))

----------------------------------------------------------------------------
(* Claims about all operations *)

\* C10: find_crossing_times, find_best_times and calc_pareto_front leave the
\* caller's track unchanged: no step of any of them changes a field of a
\* sample, the bearing included.
C10_TrackUnchanged == [][positions' = positions]_vars

\* find_crossing_times has run and the bearing it wrote into its filtered
\* copy differs from the bearing of the same sample of the track
C10_Witness ==
    /\ pc = "cross_done"
    /\ \E k \in 1 .. Len(close_positions) :
         close_positions[k].row.bearing
             # positions[close_positions[k].label].bearing

----------------------------------------------------------------------------
(* Claims about map_concurrent *)

\* with raise_on_err=False, every input key is in exactly one of the two
\* returned maps: in output with its result if its call returned, in errors
\* with its exception if its call raised an Exception
PartitionedByOutcome ==
    /\ DOMAIN output \cup DOMAIN errors = inputs
    /\ DOMAIN output \cap DOMAIN errors = {}
    /\ \A k \in inputs :
         /\ work[k] = "returned" =>
              k \in DOMAIN output /\ output[k] = Result(k)
         /\ work[k] = "Exception" =>
              k \in DOMAIN errors /\ errors[k] = Exc(k)

\* C11: with raise_on_err=False and calls of func that return or raise an
\* Exception, in every order in which the workers complete, map_concurrent
\* is not ended by a failing item, runs every item to completion and
\* returns, and what it returns has each input key in exactly one of the two
\* maps: in output with func's result if its call returned, in errors with
\* the exception if its call raised.
C11_EveryItemCollected ==
    /\ [](( pc = "map_done" /\ ~raise_on_err) => PartitionedByOutcome)
    /\ []((pc \in {"map_exit", "map_raised"} /\ ~raise_on_err) =>
             \E k \in inputs : work[k] = "BaseException")
    /\ (pc = "map_collect" /\ ~raise_on_err)
         ~> (pc = "map_done" \/ \E k \in inputs : work[k] = "BaseException")

\* a call with raise_on_err=False over three items has returned, one item
\* having failed and the others not
C11_Witness ==
    /\ pc = "map_done"
    /\ ~raise_on_err
    /\ Cardinality(inputs) = 3
    /\ Cardinality(DOMAIN errors) = 1
    /\ Cardinality(DOMAIN output) = 2

----------------------------------------------------------------------------
(* Claims about the functions that read a track *)

\* C12 as stated: every track of at least 2 samples returned by
\* parse_gpx_data, parse_fit_data or read_ludum_data has a defined bearing on
\* every sample, the last sample, which has no next sample, holding the
\* bearing of the sample before it.
C12_BearingDefinedOnEverySample ==
    (pc \in {"parsed_gpx", "parsed_fit", "parsed_ludum"}
        /\ Len(positions) >= 2) =>
        /\ \A i \in 1 .. Len(positions) : positions[i].bearing # NaN
        /\ positions[Len(positions)].bearing
               = positions[Len(positions) - 1].bearing

\* the length of the path from the first sample to sample i
PathLength(i) ==
    SumTo([j \in 1 .. Len(positions) - 1 |->
              haversine_km(positions[j], positions[j + 1])], i - 1)

\* C13 as stated: in the track returned by parse_gpx_data the distance of
\* each sample is the length of the path from the first sample to it: 0 at
\* the first sample, the total path length at the last.
C13_DistanceFromFirstSample ==
    (pc = "parsed_gpx") =>
        \A i \in 1 .. Len(positions) : positions[i].distance = PathLength(i)

----------------------------------------------------------------------------
(* Claims about find_all_crossing_times and get_location_timings *)

\* the distance and the time from the crossing of row r to that of column c
DistanceBetween(r, c) == RatSub(loc_times[c].distance, loc_times[r].distance)

TimeBetween(r, c) == RatSub(loc_times[c].time, loc_times[r].time)

\* C14 as stated, for crossings at pairwise different distances: in the
\* matrix get_location_timings returns, the entry of every ordered pair of
\* crossings with a positive distance difference is the time difference /
\* (2 * distance difference), and every other entry, the diagonal included,
\* holds one and the same value.
C14_PaceOrSentinel ==
    (pc = "timings_done"
        /\ \A r, c \in 1 .. Len(loc_times) :
             r # c => ~RatEq(loc_times[r].distance, loc_times[c].distance)) =>
        \A r, c \in 1 .. Len(loc_times) :
            IF RatLess(Rat(0, 1), DistanceBetween(r, c))
            THEN SameValue(loc_timings[r][c],
                           RatDiv(TimeBetween(r, c),
                                  Rat(2 * DistanceBetween(r, c).num,
                                      DistanceBetween(r, c).den)))
            ELSE SameValue(loc_timings[r][c], loc_timings[1][1])

\* C17 as stated: for every gate of the table, find_all_crossing_times and
\* get_location_timings keep no point farther from the gate than the
\* caller's thresh and keep every point nearer than it.
C17_CallersThresholdFilters ==
    (pc \in {"all_done", "all_raised", "timings_done", "timings_raised"}) =>
        \A g \in 1 .. Len(locations) : \A i \in 1 .. Len(positions) :
            LET kept == \E k \in 1 .. Len(close_by_gate[g]) :
                            close_by_gate[g][k].label = i
                d2 == haversine_km_squared(positions[i], locations[g].pos)
            IN  /\ d2 > thresh * thresh => ~kept
                /\ d2 < thresh * thresh => kept

\* the crossings find_crossing_times finds for the gate of row g of the table
CrossingsOfGate(g) ==
    find_crossing_times(positions, locations[g].pos, DefaultThresh).rows

\* C20: the series find_all_crossing_times returns lists crossings of the
\* gates (for a table of distinct names, every crossing of every gate) in
\* increasing order of distance; the leg number is 0 at the first row, and
\* from each row to the next it goes up by one if the two rows have the same
\* gate and stays as it is otherwise.
C20_LegsCountRepeatedGates ==
    (pc \in {"all_done", "timings_done"}) =>
        /\ \A r \in 1 .. Len(loc_times) - 1 :
             ~RatLess(loc_times[r + 1].distance, loc_times[r].distance)
        /\ \A r \in 1 .. Len(loc_times) :
             loc_times[r].leg =
                 IF r = 1 THEN 0
                 ELSE IF loc_times[r].location = loc_times[r - 1].location
                 THEN loc_times[r - 1].leg + 1
                 ELSE loc_times[r - 1].leg
        /\ \A r \in 1 .. Len(loc_times) :
             \E g \in 1 .. Len(locations) :
                 /\ locations[g].name = loc_times[r].location
                 /\ \E c \in 1 .. Len(CrossingsOfGate(g)) :
                      /\ loc_times[r].time = CrossingsOfGate(g)[c].time
                      /\ RatEq(loc_times[r].distance,
                               round3(CrossingsOfGate(g)[c].distance))
        /\ (\A g, h \in 1 .. Len(locations) :
                locations[g].name = locations[h].name => g = h) =>
             Len(loc_times) =
                 SumTo([g \in 1 .. Len(locations) |->
                           Len(CrossingsOfGate(g))], Len(locations))

\* a series of three crossings of two gates, one gate crossed twice in a row
C20_Witness ==
    /\ pc = "all_done"
    /\ Len(loc_times) = 3
    /\ \E r \in 1 .. 3 : loc_times[r].location # loc_times[1].location
    /\ loc_times[3].leg = 1

----------------------------------------------------------------------------
(* Claims about login and get_api *)

\* a call of login is under way or has ended
InLogin == pc \in {"login_loop", "login_return", "login_done",
                   "login_raised"}
           \/ (pc = "get_api_done" /\ in_get_api)

\* the call has returned, from login itself or through get_api
LoginReturned == pc = "login_done" \/ (pc = "get_api_done" /\ in_get_api)

\* every attempt of the call so far ended in one of the named exceptions
AllFailed == \A k \in 1 .. Len(attempts) : attempts[k] \in GarminErrors

\* C21: for max_retries >= 1, login makes at most max_retries attempts and
\* none after a successful one; when it returns, the last attempt succeeded
\* and the value returned is the logged-in session of that attempt, which is
\* also the module-level _API; when all max_retries attempts end in a Garmin
\* connection, authentication or rate-limit error it raises the last of
\* them; _API changes only by a successful attempt (or a new process), and
\* a get_api() without argument that finds _API set returns it and makes no
\* call of login.
C21_LoginRetriesAndStoresSession ==
    /\ []((InLogin /\ max_retries >= 1) =>
            /\ Len(attempts) <= max_retries
            /\ \A k \in 1 .. Len(attempts) - 1 : attempts[k] # "ok")
    /\ []((LoginReturned /\ max_retries >= 1) =>
            /\ attempts # <<>>
            /\ attempts[Len(attempts)] = "ok"
            /\ returned_api = Garmin(logins, Len(attempts), TRUE)
            /\ returned_api = _API)
    /\ []((InLogin /\ max_retries >= 1 /\ Len(attempts) = max_retries
             /\ AllFailed) =>
            /\ pc = "login_raised"
            /\ raised = attempts[max_retries])
    /\ [][_API' # _API =>
            \/ LoginAttempt /\ _API'.logged_in /\ _API' = api'
            \/ Restart]_vars
    /\ [][(GetApi /\ api_arg' = None /\ truthy(_API)) =>
            /\ pc' = "get_api_done"
            /\ returned_api' = _API
            /\ logins' = logins
            /\ attempts' = attempts]_vars

\* a get_api() without argument has returned, without a call of login, the
\* session that an earlier call of login stored after failed attempts
C21_Witness ==
    /\ pc = "get_api_done"
    /\ api_arg = None
    /\ ~in_get_api
    /\ attempts = <<>>
    /\ returned_api = _API
    /\ _API.logged_in
    /\ _API.try >= 2

====
